---- MODULE Spec2Model ----
(***************************************************************************)
(* A model of zotero_cli/cli.py: the command surface of zotero-cli.        *)
(*                                                                         *)
(* Python strings are sequences of one-character strings, so that the      *)
(* regular expressions and the substring test of the source are computed   *)
(* character by character.  An optional value (None or an object) is a     *)
(* sequence of length 0 or 1.                                              *)
(***************************************************************************)
EXTENDS Integers, Sequences, FiniteSets, TLC

VARIABLES
    \* get_extension harness
    pandoc_fmt,     \* the argument of get_extension
    ext,            \* Some(returned extension) once applied
    \* find_storage_directories
    fs_pc,          \* position of the generator
    container,      \* the profile container being iterated
    scanned,        \* number of directory entries taken from the iterator
    fpath,          \* Some(the entry at hand) or None
    yielded,        \* Some(the pair yielded for the entry at hand) or None
    \* select
    choices,        \* list(choices): pairs <<object, label>>
    required,       \* the parameter `required`
    shown,          \* the lines echoed before the prompt loop
    entries,        \* the integers entered at the prompt so far
    sel_pc,         \* "idle", "prompt" or "returned"
    sel_ret,        \* the value select returned: None or Some(object)
    \* commands (read, add-note, edit-note) and pick_item
    cmd,            \* the command invoked
    arg,            \* the item-id argument as the user gave it
    pc,             \* position in the command
    item_id,        \* the local item_id once pick_item has returned
    items,          \* the tuple zot.search returned to pick_item
    searched,       \* whether pick_item called zot.search
    calls,          \* the Backend calls made, in order
    read_att,       \* read's read_att: None or Some(attachment)
    offered,        \* whether read asked to download the file
    exists,         \* what os.path.exists said at line 207
    launched,       \* the path handed to click.launch
    note_num,       \* edit-note's argument note-num
    note,           \* edit-note's note
    err,            \* the message given to ctx.fail, or the exception
    \* synchronize
    remote, remote_version, store, cursor, sync_pc, pages, page_no, batch,
    max_seen, store0, cursor0, count

extVars  == <<pandoc_fmt, ext>>
dirVars  == <<fs_pc, container, scanned, fpath, yielded>>
selVars  == <<choices, required, shown, entries, sel_pc, sel_ret>>
cmdVars  == <<cmd, arg, pc, item_id, items, searched, calls, read_att,
              offered, exists, launched, note_num, note, err>>
syncVars == <<remote, remote_version, store, cursor, sync_pc, pages, page_no,
              batch, max_seen, store0, cursor0, count>>
vars     == <<extVars, dirVars, selVars, cmdVars, syncVars>>

--------------------------------------------------------------------------
(* Values shared by all parts *)

None == <<>>
Some(x) == <<x>>

Upper == {"A","B","C","D","E","F","G","H","I","J","K","L","M",
          "N","O","P","Q","R","S","T","U","V","W","X","Y","Z"}
Lower == {"a","b","c","d","e","f","g","h","i","j","k","l","m",
          "n","o","p","q","r","s","t","u","v","w","x","y","z"}
Digit == {"0","1","2","3","4","5","6","7","8","9"}

\* The repetition count {8} of ID_PAT and of PROFILE_PAT.
KeyLen == 8
ProfileIdLen == 8

\* The string of n copies of character c.
Rep(c, n) == [i \in 1..n |-> c]

\* s with the character at position p replaced by c.
Subst(s, p, c) == [i \in 1..Len(s) |-> IF i = p THEN c ELSE s[i]]

\* Python's `needle in hay` for strings.
Contains(hay, needle) ==
    \E i \in 1..(Len(hay) - Len(needle) + 1) :
        SubSeq(hay, i, i + Len(needle) - 1) = needle

--------------------------------------------------------------------------
(* get_extension *)

STR_mark    == <<"m","a","r","k">>
STR_docbook == <<"d","o","c","b","o","o","k">>
STR_latex   == <<"l","a","t","e","x">>
STR_md      == <<".","m","d">>

EXTENSION_MAP ==
    [f \in {STR_docbook, STR_latex} |->
        IF f = STR_docbook THEN <<"d","b","k">> ELSE <<"t","e","x">>]

get_extension(fmt) ==
    IF Contains(fmt, STR_mark) THEN STR_md
    ELSE IF fmt \in DOMAIN EXTENSION_MAP THEN EXTENSION_MAP[fmt]
    ELSE <<".">> \o fmt

\* Bound on the length of the generated format names.
MaxFmtLen == 4
FmtAlphabet == {"m","a","r","k","x"}

\* Every non-empty string over the alphabet of length at most n.
StringsOver(alphabet, n) == UNION {[1..k -> alphabet] : k \in 1..n}

\* Format names as pypandoc reports them: the two names of EXTENSION_MAP,
\* some names of pandoc's list, and every non-empty short name over FmtAlphabet.
PandocFormats ==
    {STR_docbook, STR_latex,
     <<"m","a","r","k","d","o","w","n">>,
     <<"c","o","m","m","o","n","m","a","r","k">>,
     <<"h","t","m","l">>, <<"r","s","t">>, <<"o","r","g">>}
    \cup StringsOver(FmtAlphabet, MaxFmtLen)

ExtInit ==
    /\ pandoc_fmt \in PandocFormats
    /\ ext = None

\* One call get_extension(pandoc_fmt).
CallGetExtension ==
    /\ ext = None
    /\ ext' = Some(get_extension(pandoc_fmt))
    /\ UNCHANGED pandoc_fmt

\* The caller's next call, with another format.
NextFormat ==
    /\ ext # None
    /\ pandoc_fmt' \in PandocFormats
    /\ ext' = None

--------------------------------------------------------------------------
(* find_storage_directories *)

FIREFOX_DIR == ".mozilla/firefox"
ZOTERO_DIR  == ".zotero"

\* PROFILE_PAT.match(name): re.match anchors at the start only.  The result
\* is None or Some(<<group(1), group(2)>>); `.` does not match a newline, so
\* group(2) ends before the first newline.
RECURSIVE TakeLine(_)
TakeLine(s) ==
    IF s = <<>> \/ Head(s) = "\n" THEN <<>>
    ELSE <<Head(s)>> \o TakeLine(Tail(s))

\* PROFILE_PAT compiled with re.IGNORECASE.
PROFILE_PAT_match_ignorecase(name) ==
    IF /\ Len(name) >= ProfileIdLen + 1
       /\ \A i \in 1..ProfileIdLen : name[i] \in Lower \cup Upper \cup Digit
       /\ name[ProfileIdLen + 1] = "."
    THEN Some(<<SubSeq(name, 1, ProfileIdLen),
                TakeLine(SubSeq(name, ProfileIdLen + 2, Len(name)))>>)
    ELSE None

PROFILE_PAT_match(name) ==
    IF /\ Len(name) >= ProfileIdLen + 1
       /\ \A i \in 1..ProfileIdLen : name[i] \in Lower \cup Digit
       /\ name[ProfileIdLen + 1] = "."
    THEN Some(<<SubSeq(name, 1, ProfileIdLen),
                TakeLine(SubSeq(name, ProfileIdLen + 2, Len(name)))>>)
    ELSE None

\* Bound on the number of entries one profile container holds.
MaxDirEntries == 2

\* Names of directory entries: a run of ProfileIdLen-1 .. ProfileIdLen+1
\* characters "a" with one of them possibly replaced, followed by a tail.
NameHeads ==
    {Subst(Rep("a", n), p, c) :
        n \in (ProfileIdLen - 1)..(ProfileIdLen + 1),
        p \in {1, ProfileIdLen, ProfileIdLen + 1},
        c \in {"a", "7", "A", "."}}
NameTails ==
    {<<>>, <<".">>, <<"d","e","f">>, <<".","d","e","f">>,
     <<".","d","\n","e">>}
EntryNames == {h \o t : h \in NameHeads, t \in NameTails}

\* What an entry of a profile container is on disk.  `storage` says whether
\* <entry>/storage exists; `zotero` says what <entry>/zotero holds:
\* "absent" (no zotero child), "empty" (zotero without storage),
\* "storage_file" or "storage_dir" (zotero/storage is a file, a directory).
ZoteroLayouts == {"absent", "empty", "storage_file", "storage_dir"}
DirEntries ==
    [name : EntryNames, is_dir : {TRUE}, storage : BOOLEAN,
     zotero : ZoteroLayouts]
    \cup [name : EntryNames, is_dir : {FALSE}, storage : {FALSE},
          zotero : {"absent"}]

\* storage_path.exists() for storage_path = fpath/"zotero"/"storage".
storage_path_exists(e) == e.zotero \in {"storage_file", "storage_dir"}

\* The body of the for loop for one entry: Some(pair yielded) or None.
LoopBody(dir, e) ==
    IF ~e.is_dir THEN None
    ELSE LET match == PROFILE_PAT_match(e.name)
         IN  IF match # None /\ storage_path_exists(e)
             THEN Some([suffix |-> match[1][2],
                        path |-> <<dir, e.name, "zotero", "storage">>])
             ELSE None

DirInit ==
    /\ fs_pc = "iter"
    /\ container = FIREFOX_DIR
    /\ scanned = 0
    /\ fpath = None
    /\ yielded = None

\* The chained iterator hands over the next entry of the container and the
\* loop body runs on it.
IterNext ==
    /\ fs_pc = "iter"
    /\ scanned < MaxDirEntries
    /\ \E e \in DirEntries :
        /\ fpath' = Some(e)
        /\ yielded' = LoopBody(container, e)
    /\ scanned' = scanned + 1
    /\ UNCHANGED <<fs_pc, container>>

\* The container is exhausted: itertools.chain moves on to the next one, and
\* the generator ends after the last.
IterExhausted ==
    /\ fs_pc = "iter"
    /\ IF container = FIREFOX_DIR
       THEN container' = ZOTERO_DIR /\ fs_pc' = "iter"
       ELSE container' = container /\ fs_pc' = "done"
    /\ scanned' = 0
    /\ fpath' = None
    /\ yielded' = None

\* The container does not exist: iterdir() raises OSError when the chain
\* first asks it for an entry.
IterRaise ==
    /\ fs_pc = "iter"
    /\ scanned = 0
    /\ fs_pc' = "raised"
    /\ fpath' = None
    /\ yielded' = None
    /\ UNCHANGED <<container, scanned>>

\* configure calls find_storage_directories once more (a new run).
DirRestart ==
    /\ fs_pc \in {"done", "raised"}
    /\ fs_pc' = "iter"
    /\ container' = FIREFOX_DIR
    /\ scanned' = 0
    /\ fpath' = None
    /\ yielded' = None

--------------------------------------------------------------------------
(* click.style and the labels of choices *)

\* A piece of terminal text is a sequence of segments; a segment carries its
\* words and the colour click.style wrapped them in ("plain": no escape codes).
Plain(words) == <<[text |-> words, fg |-> "plain"]>>
Style(words, colour) == <<[text |-> words, fg |-> colour]>>

\* '\x1b' in label
HasEscape(label) == \E i \in 1..Len(label) : label[i].fg # "plain"

\* The words of a label, whatever their colour.
RECURSIVE Words(_)
Words(label) ==
    IF label = <<>> THEN <<>> ELSE Head(label).text \o Words(Tail(label))

--------------------------------------------------------------------------
(* select *)

\* select with the cutoff of required=False whatever `required` is.
select_step_cutoff(chs, req, choice_idx) ==
    IF choice_idx < -1 \/ choice_idx >= Len(chs)
    THEN [returns |-> FALSE, value |-> None]
    ELSE IF choice_idx = -1
    THEN [returns |-> TRUE, value |-> None]
    ELSE [returns |-> TRUE, value |-> Some(chs[choice_idx + 1][1])]

\* One pass of the `while True` loop for the entered integer choice_idx:
\* whether select returns, and what.
select_step(chs, req, choice_idx) ==
    LET cutoff == IF ~req THEN -1 ELSE 0
    IN  IF choice_idx < cutoff \/ choice_idx >= Len(chs)
        THEN [returns |-> FALSE, value |-> None]
        ELSE IF choice_idx = -1
        THEN [returns |-> TRUE, value |-> None]
        ELSE [returns |-> TRUE, value |-> Some(chs[choice_idx + 1][1])]

\* The lines select echoes for its choices, before it prompts.
Listing(chs) ==
    [i \in 1..Len(chs) |->
        [key |-> i - 1,
         description |-> IF ~HasEscape(chs[i][2])
                         THEN Style(Words(chs[i][2]), "blue")
                         ELSE chs[i][2]]]

\* Bound on the number of integers entered at one select prompt.
MaxPrompts == 2

\* The integers a user enters: below every cutoff, -1, every index, and the
\* first two integers past the end.
PromptInputs(chs) == (-2)..(Len(chs) + 1)

\* click.prompt returns an integer and the loop body runs on it.
Prompt ==
    /\ sel_pc = "prompt"
    /\ Len(entries) < MaxPrompts
    /\ \E choice_idx \in PromptInputs(choices) :
        LET r == select_step(choices, required, choice_idx)
        IN  /\ entries' = Append(entries, choice_idx)
            /\ sel_pc' = IF r.returns THEN "returned" ELSE "prompt"
            /\ sel_ret' = r.value
    /\ UNCHANGED <<choices, required, shown>>

\* select(chs, required=req) up to its first prompt.
SelectCalled(chs, req) ==
    /\ choices' = chs
    /\ required' = req
    /\ shown' = Listing(chs)
    /\ entries' = <<>>
    /\ sel_pc' = "prompt"
    /\ sel_ret' = None

\* select's frame is gone.
SelectCleared ==
    /\ choices' = <<>>
    /\ required' = TRUE
    /\ shown' = <<>>
    /\ entries' = <<>>
    /\ sel_pc' = "idle"
    /\ sel_ret' = None

SelInit ==
    /\ choices = <<>>
    /\ required = TRUE
    /\ shown = <<>>
    /\ entries = <<>>
    /\ sel_pc = "idle"
    /\ sel_ret = None

--------------------------------------------------------------------------
(* pick_item *)

\* ID_PAT.match(item_id): re.match anchors at the start only.
ID_PAT_match(s) ==
    /\ Len(s) >= KeyLen
    /\ \A i \in 1..KeyLen : s[i] \in Upper \cup Digit

\* The Items of the library the Backend searches.  An absent creator or date
\* is the empty string.
KEY_1 == Rep("A", KeyLen)
KEY_2 == Rep("B", KeyLen)
KEY_3 == Subst(Rep("C", KeyLen), KeyLen, "7")
Library ==
    {[key |-> KEY_1, title |-> "Neural Networks", creator |-> "Smith",
      date |-> "1999"],
     [key |-> KEY_2, title |-> "Neural Networks", creator |-> "",
      date |-> ""],
     [key |-> KEY_3, title |-> "Deep Learning", creator |-> "Jones",
      date |-> ""]}

\* Bound on the number of Items one search returns.
MaxMatches == 2

\* Sequences of at most n distinct elements of S.
DistinctSeqs(S, n) ==
    {q \in UNION {[1..k -> S] : k \in 0..n} :
        \A i, j \in 1..Len(q) : i # j => q[i] # q[j]}

SearchResults == DistinctSeqs(Library, MaxMatches)

\* The description pick_item builds for one Item (lines 270-275).
Describe(it) ==
    LET desc0 == Style(<<it.title>>, "blue")
        desc1 == IF it.creator # ""
                 THEN Style(<<it.creator, ": ">>, "cyan") \o desc0
                 ELSE desc0
    IN  IF it.date # ""
        THEN desc1 \o Style(<<" (", it.date, ")">>, "yellow")
        ELSE desc1

\* zip(a, b)
Zip(a, b) ==
    [i \in 1..(IF Len(a) < Len(b) THEN Len(a) ELSE Len(b)) |-> <<a[i], b[i]>>]

\* pick_item taking the first of several matches without asking.
pick_item_first(id, found) ==
    IF ~ID_PAT_match(id)
    THEN IF Len(found) > 0
         THEN [kind |-> "return", searched |-> TRUE,
               value |-> Some(found[1].key), choices |-> <<>>]
         ELSE [kind |-> "raise", searched |-> TRUE, value |-> None,
               choices |-> <<>>]
    ELSE [kind |-> "return", searched |-> FALSE, value |-> None,
          choices |-> <<>>]

\* pick_item returning None instead of raising when nothing matches.
pick_item_noraise(id, found) ==
    IF ~ID_PAT_match(id)
    THEN IF Len(found) > 1
         THEN [kind |-> "select", searched |-> TRUE, value |-> None,
               choices |-> Zip(found, [i \in 1..Len(found) |-> Describe(found[i])])]
         ELSE IF Len(found) > 0
         THEN [kind |-> "return", searched |-> TRUE,
               value |-> Some(found[1].key), choices |-> <<>>]
         ELSE [kind |-> "return", searched |-> TRUE, value |-> None,
               choices |-> <<>>]
    ELSE [kind |-> "return", searched |-> FALSE, value |-> None,
          choices |-> <<>>]

\* pick_item(zot, id) up to the point where it returns, raises or calls
\* select, given the tuple `found` that zot.search(id) returns if called.
\* A Python function that runs off its end returns None.
pick_item(id, found) ==
    IF ~ID_PAT_match(id)
    THEN IF Len(found) > 1
         THEN [kind |-> "select", searched |-> TRUE, value |-> None,
               choices |-> Zip(found, [i \in 1..Len(found) |-> Describe(found[i])])]
         ELSE IF Len(found) > 0
         THEN [kind |-> "return", searched |-> TRUE,
               value |-> Some(found[1].key), choices |-> <<>>]
         ELSE [kind |-> "raise", searched |-> TRUE, value |-> None,
               choices |-> <<>>]
    ELSE [kind |-> "return", searched |-> FALSE, value |-> None,
          choices |-> <<>>]

MSG_NO_ITEMS == "Could not find any items for the query."
MSG_NO_ATTACHMENT == "Could not find an attachment for reading."
MSG_NO_FILE == "Could not find file"
MSG_NO_NOTES == "The item does not have any notes."
EXC_INDEX_ERROR == "IndexError"

\* The identifiers a user passes as item-id: runs of KeyLen-1 .. KeyLen+1
\* uppercase characters with one character possibly a digit or a lowercase
\* letter, and two queries.
IdInputs ==
    {Subst(Rep("A", n), p, c) :
        n \in (KeyLen - 1)..(KeyLen + 1),
        p \in {1, KeyLen, KeyLen + 1},
        c \in {"7", "a"}}
    \cup {<<"s","m","i","t","h">>,
          <<"N","E","U","R","A","L"," ","N","E","T","S">>}

\* The command's call of pick_item (lines 183-186, 224-227, 239-242): the
\* search result is the Backend's answer, and a ValueError goes to ctx.fail.
PickItem ==
    /\ pc = "start"
    /\ \E found \in SearchResults :
        LET r == pick_item(arg, found)
        IN  /\ searched' = r.searched
            /\ calls' = IF r.searched THEN Append(calls, "search") ELSE calls
            /\ items' = IF r.searched THEN found ELSE <<>>
            /\ CASE r.kind = "select" ->
                      /\ SelectCalled(r.choices, TRUE)
                      /\ pc' = "select_item"
                      /\ UNCHANGED <<item_id, err>>
                 [] r.kind = "return" ->
                      /\ item_id' = r.value
                      /\ pc' = "picked"
                      /\ UNCHANGED <<selVars, err>>
                 [] r.kind = "raise" ->
                      /\ err' = Some(MSG_NO_ITEMS)
                      /\ pc' = "failed"
                      /\ UNCHANGED <<selVars, item_id>>
    /\ UNCHANGED <<cmd, arg, read_att, offered, exists, launched, note_num,
                   note>>

\* select has returned to pick_item, which returns the .key of the object.
PickItemSelected ==
    /\ pc = "select_item"
    /\ sel_pc = "returned"
    /\ IF sel_ret = None
       THEN /\ err' = Some("AttributeError")
            /\ pc' = "crashed"
            /\ UNCHANGED item_id
       ELSE /\ item_id' = Some(sel_ret[1].key)
            /\ pc' = "picked"
            /\ UNCHANGED err
    /\ UNCHANGED <<selVars, cmd, arg, items, searched, calls, read_att,
                   offered, exists, launched, note_num, note>>

--------------------------------------------------------------------------
(* read *)

\* The attachments the Backend knows.  data.path is present (Some) or not.
LocalPath(key, filename) == <<"storage", key, filename>>
TempPath(filename) == <<"tmp", filename>>
Attachment(k, q) ==
    [key |-> k, title |-> "Full Text", filename |-> "paper.pdf", path |-> q]
AttachmentPool ==
    UNION {{Attachment(k, None), Attachment(k, Some(LocalPath(k, "paper.pdf")))} :
            k \in {"ATT1", "ATT2", "ATT3"}}

\* Bound on the number of attachments of one item.
MaxAttachments == 2

AttachmentLists ==
    {q \in UNION {[1..k -> AttachmentPool] : k \in 0..MaxAttachments} :
        \A i, j \in 1..Len(q) : i # j => q[i].key # q[j].key}

\* Lines 187-196.
ReadAttachments ==
    /\ pc = "picked"
    /\ cmd = "read"
    /\ calls' = Append(calls, "attachments")
    /\ \E atts \in AttachmentLists :
        IF Len(atts) = 0
        THEN /\ err' = Some(MSG_NO_ATTACHMENT)
             /\ pc' = "failed"
             /\ SelectCleared
             /\ UNCHANGED read_att
        ELSE IF Len(atts) > 1
        THEN /\ SelectCalled([i \in 1..Len(atts) |->
                                <<atts[i], Plain(<<atts[i].title>>)>>], TRUE)
             /\ pc' = "select_att"
             /\ UNCHANGED <<read_att, err>>
        ELSE /\ read_att' = Some(atts[1])
             /\ pc' = "att"
             /\ SelectCleared
             /\ UNCHANGED err
    /\ UNCHANGED <<cmd, arg, item_id, items, searched, offered, exists,
                   launched, note_num, note>>

\* select has returned the attachment (line 193).
ReadAttSelected ==
    /\ pc = "select_att"
    /\ sel_pc = "returned"
    /\ read_att' = sel_ret
    /\ pc' = "att"
    /\ SelectCleared
    /\ UNCHANGED <<cmd, arg, item_id, items, searched, calls, offered, exists,
                   launched, note_num, note, err>>

\* Line 197: without a path the user is asked whether to download.
ReadCheckPath ==
    /\ pc = "att"
    /\ IF read_att = None
       THEN /\ err' = Some("TypeError")
            /\ pc' = "crashed"
            /\ UNCHANGED offered
       ELSE IF read_att[1].path = None
       THEN /\ offered' = TRUE
            /\ pc' = "confirm"
            /\ UNCHANGED err
       ELSE /\ pc' = "open"
            /\ UNCHANGED <<offered, err>>
    /\ UNCHANGED <<selVars, cmd, arg, item_id, items, searched, calls,
                   read_att, exists, launched, note_num, note>>

\* Lines 198-206: the answer to click.confirm.
ReadConfirm ==
    /\ pc = "confirm"
    /\ \E do_download \in BOOLEAN :
        IF do_download
        THEN /\ calls' = Append(calls, "download_attachment")
             /\ read_att' = Some([read_att[1] EXCEPT
                                    !.path = Some(TempPath(read_att[1].filename))])
             /\ pc' = "open"
        ELSE /\ pc' = "done"
             /\ UNCHANGED <<calls, read_att>>
    /\ UNCHANGED <<selVars, cmd, arg, item_id, items, searched, offered,
                   exists, launched, note_num, note, err>>

\* Lines 207-211: the file system says whether the path exists.
ReadOpen ==
    /\ pc = "open"
    /\ \E e \in BOOLEAN :
        /\ exists' = Some(e)
        /\ IF e
           THEN /\ launched' = read_att[1].path
                /\ pc' = "done"
                /\ UNCHANGED err
           ELSE /\ err' = Some(MSG_NO_FILE)
                /\ pc' = "failed"
                /\ UNCHANGED launched
    /\ UNCHANGED <<selVars, cmd, arg, item_id, items, searched, calls,
                   read_att, offered, note_num, note>>

--------------------------------------------------------------------------
(* add-note and edit-note *)

\* What click.edit returns: None (the editor was left without saving), or the
\* text, which may be empty.  A text is its sequence of lines, a line its
\* sequence of characters.
EMPTY_TEXT == <<>>
NEW_TEXT == << <<"n","e","w">> >>
EditorResults == {None, Some(EMPTY_TEXT), Some(NEW_TEXT)}

\* Python's truth value of click.edit's result.
Truthy(edited) == edited # None /\ edited[1] # EMPTY_TEXT

\* Lines 228-230.  (The extension passed to click.edit is no state.)
AddNoteEdit ==
    /\ pc = "picked"
    /\ cmd = "add-note"
    /\ \E note_body \in EditorResults :
        calls' = IF Truthy(note_body) THEN Append(calls, "create_note")
                 ELSE calls
    /\ pc' = "done"
    /\ SelectCleared
    /\ UNCHANGED <<cmd, arg, item_id, items, searched, read_att, offered,
                   exists, launched, note_num, note, err>>

\* The notes the Backend knows.
NotePool ==
    {[key |-> "NOTE1", text |-> << <<"t","o","-","d","o",":"," ","x">>, <<"b">> >>],
     [key |-> "NOTE2", text |-> << <<"a","_","1">> >>],
     [key |-> "NOTE3", text |-> << <<>> >>]}

\* Bound on the number of notes of one item.
MaxNotes == 2

NoteLists == DistinctSeqs(NotePool, MaxNotes)

\* The note-num argument: absent, or an integer.
NoteNums == {None} \cup {Some(k) : k \in (0 - MaxNotes - 1)..MaxNotes}

\* re.sub("[^\w]", " ", line)
WordChars == Upper \cup Lower \cup Digit \cup {"_"}
SubNonWord(line) ==
    [i \in 1..Len(line) |-> IF line[i] \in WordChars THEN line[i] ELSE " "]

\* Lines 243-255.  tup[n] for a Python tuple takes n from -len to len-1.
EditNotes ==
    /\ pc = "picked"
    /\ cmd = "edit-note"
    /\ calls' = Append(calls, "notes")
    /\ \E ns \in NoteLists :
        IF Len(ns) = 0
        THEN /\ err' = Some(MSG_NO_NOTES)
             /\ pc' = "failed"
             /\ SelectCleared
             /\ UNCHANGED note
        ELSE IF note_num = None
        THEN IF Len(ns) > 1
             THEN /\ SelectCalled([i \in 1..Len(ns) |->
                        <<ns[i], Plain(SubNonWord(ns[i].text[1]))>>], TRUE)
                  /\ pc' = "select_note"
                  /\ UNCHANGED <<note, err>>
             ELSE /\ note' = Some(ns[1])
                  /\ pc' = "edit"
                  /\ SelectCleared
                  /\ UNCHANGED err
        ELSE LET n == note_num[1]
             IN  IF n >= Len(ns) \/ n < 0 - Len(ns)
                 THEN /\ err' = Some(EXC_INDEX_ERROR)
                      /\ pc' = "crashed"
                      /\ SelectCleared
                      /\ UNCHANGED note
                 ELSE /\ note' = Some(ns[(IF n < 0 THEN n + Len(ns) ELSE n) + 1])
                      /\ pc' = "edit"
                      /\ SelectCleared
                      /\ UNCHANGED err
    /\ UNCHANGED <<cmd, arg, item_id, items, searched, read_att, offered,
                   exists, launched, note_num>>

\* select has returned the note (lines 248-251).
EditNoteSelected ==
    /\ pc = "select_note"
    /\ sel_pc = "returned"
    /\ note' = sel_ret
    /\ pc' = "edit"
    /\ SelectCleared
    /\ UNCHANGED <<cmd, arg, item_id, items, searched, calls, read_att,
                   offered, exists, launched, note_num, err>>

\* Lines 256-260.
EditNoteEdit ==
    /\ pc = "edit"
    /\ \E updated_text \in EditorResults :
        IF Truthy(updated_text)
        THEN /\ note' = Some([note[1] EXCEPT !.text = updated_text[1]])
             /\ calls' = Append(calls, "save_note")
        ELSE UNCHANGED <<note, calls>>
    /\ pc' = "done"
    /\ UNCHANGED <<selVars, cmd, arg, item_id, items, searched, read_att,
                   offered, exists, launched, note_num, err>>

Commands == {"read", "add-note", "edit-note"}

CmdInit ==
    /\ cmd \in Commands
    /\ arg \in IdInputs
    /\ pc = "start"
    /\ item_id = None
    /\ items = <<>>
    /\ searched = FALSE
    /\ calls = <<>>
    /\ read_att = None
    /\ offered = FALSE
    /\ exists = None
    /\ launched = None
    /\ note_num \in (IF cmd = "edit-note" THEN NoteNums ELSE {None})
    /\ note = None
    /\ err = None

--------------------------------------------------------------------------
(* select called on its own, as configure calls it (lines 123-125, 137-139) *)

\* Bound on the number of choices handed to select.
MaxChoices == 2

ChoicePool ==
    {<<it, Describe(it)>> : it \in Library}
    \cup {<<it, Plain(<<it.title>>)>> : it \in Library}
ChoiceLists == UNION {[1..k -> ChoicePool] : k \in 0..MaxChoices}

SelectCall ==
    /\ pc = "configure"
    /\ sel_pc = "idle"
    /\ \E chs \in ChoiceLists, req \in BOOLEAN : SelectCalled(chs, req)

SelectReturn ==
    /\ pc = "configure"
    /\ sel_pc = "returned"
    /\ SelectCleared

\* The parts of the state a specification does not use.
ExtIdle ==
    /\ pandoc_fmt = <<>>
    /\ ext = None
DirIdle ==
    /\ fs_pc = "idle"
    /\ container = FIREFOX_DIR
    /\ scanned = 0
    /\ fpath = None
    /\ yielded = None
CmdIdle ==
    /\ cmd = "configure"
    /\ arg = <<>>
    /\ pc = "configure"
    /\ item_id = None
    /\ items = <<>>
    /\ searched = FALSE
    /\ calls = <<>>
    /\ read_att = None
    /\ offered = FALSE
    /\ exists = None
    /\ launched = None
    /\ note_num = None
    /\ note = None
    /\ err = None

--------------------------------------------------------------------------
(* sync and the Backend's synchronize() *)

\* The keys of the remote library's records and the highest version the
\* remote service hands out.
Keys == {"K1", "K2"}
MaxVersion == 3
\* The number of records on one page of a pull.
PageSize == 1

Max(a, b) == IF a > b THEN a ELSE b

\* The remote library: per key the version of its last change (0: the key
\* never existed) and whether that change deleted it.
RemoteInit ==
    /\ remote = [k \in Keys |-> [version |-> 0, deleted |-> FALSE]]
    /\ remote_version = 0

\* Somebody changes the remote library: a record is created, modified or
\* deleted, and takes the library's next version.
RemoteChange ==
    /\ sync_pc = "idle"
    /\ remote_version < MaxVersion
    /\ \E k \in Keys, del \in BOOLEAN :
        /\ del => (remote[k].version > 0 /\ ~remote[k].deleted)
        /\ remote' = [remote EXCEPT ![k] = [version |-> remote_version + 1,
                                            deleted |-> del]]
    /\ remote_version' = remote_version + 1
    /\ UNCHANGED <<store, cursor, sync_pc, pages, page_no, batch, max_seen,
                   store0, cursor0, count>>

\* The changes with a version strictly greater than the cursor, oldest first.
ChangesSince(cur) ==
    LET changed == {k \in Keys : remote[k].version > cur}
        order == CHOOSE q \in [1..Cardinality(changed) -> changed] :
                    \A i, j \in 1..Cardinality(changed) :
                        i < j => remote[q[i]].version < remote[q[j]].version
    IN  [i \in 1..Cardinality(changed) |->
            [key |-> order[i], version |-> remote[order[i]].version,
             deleted |-> remote[order[i]].deleted]]

NumPages(changes) == (Len(changes) + PageSize - 1) \div PageSize
PageOf(changes, p) ==
    SubSeq(changes, (p - 1) * PageSize + 1,
           IF p * PageSize < Len(changes) THEN p * PageSize ELSE Len(changes))

\* A batch holds, per key, nothing (0), a tombstone (-1) or the version to
\* upsert.
EmptyBatch == [k \in Keys |-> 0]

RECURSIVE Stage(_, _)
Stage(b, page) ==
    IF page = <<>> THEN b
    ELSE Stage([b EXCEPT ![Head(page).key] =
                    IF Head(page).deleted THEN -1 ELSE Head(page).version],
               Tail(page))

RECURSIVE MaxVersionOf(_, _)
MaxVersionOf(m, page) ==
    IF page = <<>> THEN m
    ELSE MaxVersionOf(Max(m, Head(page).version), Tail(page))

\* The Local Store after the batch is applied: per key the stored version,
\* 0 when the key is not stored.
Apply(st, b) ==
    [k \in Keys |-> IF b[k] = -1 THEN 0 ELSE IF b[k] > 0 THEN b[k] ELSE st[k]]

SyncInit ==
    /\ RemoteInit
    /\ store = [k \in Keys |-> 0]
    /\ cursor = 0
    /\ sync_pc = "idle"
    /\ pages = <<>>
    /\ page_no = 0
    /\ batch = EmptyBatch
    /\ max_seen = 0
    /\ store0 = [k \in Keys |-> 0]
    /\ cursor0 = 0
    /\ count = 0

\* The sync command calls ctx.obj.synchronize(), which reads the cursor and
\* requests the changes after it.
sync ==
    /\ sync_pc = "idle"
    /\ sync_pc' = "pulling"
    /\ pages' = ChangesSince(cursor)
    /\ page_no' = 1
    /\ batch' = EmptyBatch
    /\ max_seen' = cursor
    /\ store0' = store
    /\ cursor0' = cursor
    /\ count' = 0
    /\ UNCHANGED <<remote, remote_version, store, cursor>>

\* A page written to the Local Store as it arrives.
SyncPageEager ==
    /\ sync_pc = "pulling"
    /\ page_no <= NumPages(pages)
    /\ store' = Apply(store, Stage(EmptyBatch, PageOf(pages, page_no)))
    /\ max_seen' = MaxVersionOf(max_seen, PageOf(pages, page_no))
    /\ count' = count + Len(PageOf(pages, page_no))
    /\ page_no' = page_no + 1
    /\ UNCHANGED <<remote, remote_version, cursor, sync_pc, pages, batch,
                   store0, cursor0>>

\* One page arrives and is staged in the batch.
SyncPage ==
    /\ sync_pc = "pulling"
    /\ page_no <= NumPages(pages)
    /\ batch' = Stage(batch, PageOf(pages, page_no))
    /\ max_seen' = MaxVersionOf(max_seen, PageOf(pages, page_no))
    /\ count' = count + Len(PageOf(pages, page_no))
    /\ page_no' = page_no + 1
    /\ UNCHANGED <<remote, remote_version, store, cursor, sync_pc, pages,
                   store0, cursor0>>

\* A page fails (RemoteUnavailable, AuthError or StoreWriteError): the batch
\* is rolled back and the call fails.
SyncPageFail ==
    /\ sync_pc = "pulling"
    /\ page_no <= NumPages(pages)
    /\ batch' = EmptyBatch
    /\ sync_pc' = "aborted"
    /\ UNCHANGED <<remote, remote_version, store, cursor, pages, page_no,
                   max_seen, store0, cursor0, count>>

\* All pages have succeeded: the batch is committed and the cursor set.
SyncCommit ==
    /\ sync_pc = "pulling"
    /\ page_no > NumPages(pages)
    /\ store' = Apply(store, batch)
    /\ cursor' = max_seen
    /\ sync_pc' = "committed"
    /\ UNCHANGED <<remote, remote_version, pages, page_no, batch, max_seen,
                   store0, cursor0, count>>

\* synchronize() has returned or raised; the command ends.
SyncReturn ==
    /\ sync_pc \in {"committed", "aborted"}
    /\ sync_pc' = "idle"
    /\ UNCHANGED <<remote, remote_version, store, cursor, pages, page_no,
                   batch, max_seen, store0, cursor0, count>>

SyncIdle ==
    /\ RemoteInit
    /\ store = [k \in Keys |-> 0]
    /\ cursor = 0
    /\ sync_pc = "unused"
    /\ pages = <<>>
    /\ page_no = 0
    /\ batch = EmptyBatch
    /\ max_seen = 0
    /\ store0 = [k \in Keys |-> 0]
    /\ cursor0 = 0
    /\ count = 0

--------------------------------------------------------------------------
(* Specifications *)

\* Calls of get_extension.
ExtNext ==
    \/ CallGetExtension /\ UNCHANGED <<dirVars, selVars, cmdVars, syncVars>>
    \/ NextFormat /\ UNCHANGED <<dirVars, selVars, cmdVars, syncVars>>
InitExt == ExtInit /\ DirIdle /\ SelInit /\ CmdIdle /\ SyncIdle
SpecExt == InitExt /\ [][ExtNext]_vars

\* Runs of find_storage_directories.
DirNext ==
    \/ IterNext /\ UNCHANGED <<extVars, selVars, cmdVars, syncVars>>
    \/ IterExhausted /\ UNCHANGED <<extVars, selVars, cmdVars, syncVars>>
    \/ IterRaise /\ UNCHANGED <<extVars, selVars, cmdVars, syncVars>>
    \/ DirRestart /\ UNCHANGED <<extVars, selVars, cmdVars, syncVars>>
InitDirs == ExtIdle /\ DirInit /\ SelInit /\ CmdIdle /\ SyncIdle
SpecDirs == InitDirs /\ [][DirNext]_vars

\* Calls of select.
SelNext ==
    \/ SelectCall /\ UNCHANGED <<extVars, dirVars, cmdVars, syncVars>>
    \/ Prompt /\ UNCHANGED <<extVars, dirVars, cmdVars, syncVars>>
    \/ SelectReturn /\ UNCHANGED <<extVars, dirVars, cmdVars, syncVars>>
InitSelect == ExtIdle /\ DirIdle /\ SelInit /\ CmdIdle /\ SyncIdle
SpecSelect == InitSelect /\ [][SelNext]_vars

\* One run of read, add-note or edit-note.
CmdNext ==
    \/ PickItem /\ UNCHANGED <<extVars, dirVars, syncVars>>
    \/ Prompt /\ pc # "configure"
              /\ UNCHANGED <<extVars, dirVars, cmdVars, syncVars>>
    \/ PickItemSelected /\ UNCHANGED <<extVars, dirVars, syncVars>>
    \/ ReadAttachments /\ UNCHANGED <<extVars, dirVars, syncVars>>
    \/ ReadAttSelected /\ UNCHANGED <<extVars, dirVars, syncVars>>
    \/ ReadCheckPath /\ UNCHANGED <<extVars, dirVars, syncVars>>
    \/ ReadConfirm /\ UNCHANGED <<extVars, dirVars, syncVars>>
    \/ ReadOpen /\ UNCHANGED <<extVars, dirVars, syncVars>>
    \/ AddNoteEdit /\ UNCHANGED <<extVars, dirVars, syncVars>>
    \/ EditNotes /\ UNCHANGED <<extVars, dirVars, syncVars>>
    \/ EditNoteSelected /\ UNCHANGED <<extVars, dirVars, syncVars>>
    \/ EditNoteEdit /\ UNCHANGED <<extVars, dirVars, syncVars>>
Init == ExtIdle /\ DirIdle /\ SelInit /\ CmdInit /\ SyncIdle
Spec == Init /\ [][CmdNext]_vars

\* Runs of the sync command against a changing remote library.
SyncNext ==
    \/ RemoteChange /\ UNCHANGED <<extVars, dirVars, selVars, cmdVars>>
    \/ sync /\ UNCHANGED <<extVars, dirVars, selVars, cmdVars>>
    \/ SyncPage /\ UNCHANGED <<extVars, dirVars, selVars, cmdVars>>
    \/ SyncPageFail /\ UNCHANGED <<extVars, dirVars, selVars, cmdVars>>
    \/ SyncCommit /\ UNCHANGED <<extVars, dirVars, selVars, cmdVars>>
    \/ SyncReturn /\ UNCHANGED <<extVars, dirVars, selVars, cmdVars>>
InitSync == ExtIdle /\ DirIdle /\ SelInit /\ CmdIdle /\ SyncInit
SpecSync == InitSync /\ [][SyncNext]_vars

--------------------------------------------------------------------------
(* Properties *)

\* An identifier that is exactly a key: KeyLen uppercase letters or digits.
IsKey(s) == Len(s) = KeyLen /\ \A i \in 1..Len(s) : s[i] \in Upper \cup Digit

\* C1: for an identifier that is a key, pick_item returns that same string
\* as the Item key, and zot.search is not called.
C1_KeyResolves ==
    (pc = "picked" /\ IsKey(arg)) => (item_id = Some(arg) /\ ~searched)

\* C2: when the search yields more than one Item, pick_item does not resolve
\* on its own: select is given one choice per match, in search order, each
\* listed under its own index with the Item's title, and the key pick_item
\* returns is the key of the match whose index the user entered.
C2_AmbiguitySurfaced ==
    /\ (searched /\ Len(items) > 1 /\ pc \in {"select_item", "picked"}) =>
        /\ Len(choices) = Len(items)
        /\ Len(shown) = Len(items)
        /\ \A i \in 1..Len(items) :
            /\ choices[i][1] = items[i]
            /\ shown[i].key = i - 1
            /\ \E w \in 1..Len(Words(shown[i].description)) :
                  Words(shown[i].description)[w] = items[i].title
        /\ pc = "picked" =>
            /\ entries # <<>>
            /\ entries[Len(entries)] \in 0..(Len(items) - 1)
            /\ item_id = Some(items[entries[Len(entries)] + 1].key)
    /\ (searched /\ Len(items) > 1 /\ pc \notin {"start", "select_item"}) =>
        \E i \in 1..Len(items) : item_id = Some(items[i].key)
C2_Witness ==
    /\ pc = "picked"
    /\ Len(items) = 2
    /\ items[1].title = items[2].title
    /\ item_id = Some(items[2].key)

\* C3: when the search yields no Item, pick_item raises the not-found
\* ValueError before any prompt, and the command has failed with its message
\* having made no Backend call but the search.
C3_NotFoundAborts ==
    (searched /\ items = <<>>) =>
        /\ pc = "failed"
        /\ err = Some(MSG_NO_ITEMS)
        /\ calls = <<"search">>
        /\ entries = <<>> /\ shown = <<>> /\ sel_pc = "idle"
        /\ ~offered /\ launched = None
C3_Witness ==
    /\ pc = "failed"
    /\ searched /\ items = <<>>
    /\ cmd = "edit-note"
    /\ err = Some(MSG_NO_ITEMS)

\* C7: whenever the chosen attachment's file is not there, with or without a
\* path in its data, read has offered the download; and a file is launched
\* only if it exists.
C7_FallsBackToDownload ==
    /\ (read_att # None /\ exists = Some(FALSE)) => offered
    /\ launched # None => exists = Some(TRUE)

\* C9: every identifier that is not exactly a key is searched for.
C9_QueryDispatch ==
    (pc # "start" /\ cmd \in Commands /\ ~IsKey(arg)) => searched

\* C4: while a pull is under way and after a page of it has failed, the
\* cursor and the Local Store are what they were before the call; once the
\* call has committed, every page had been staged and the cursor is the
\* highest version observed.
C4_SyncAtomic ==
    /\ sync_pc \in {"pulling", "aborted"} =>
        /\ cursor = cursor0
        /\ store = store0
    /\ sync_pc = "committed" =>
        /\ page_no > NumPages(pages)
        /\ \A i \in 1..Len(pages) : cursor >= pages[i].version
        /\ cursor >= cursor0
        /\ \/ cursor = cursor0
           \/ \E i \in 1..Len(pages) : cursor = pages[i].version
        /\ \A i \in 1..Len(pages) :
              store[pages[i].key] =
                  IF pages[i].deleted THEN 0 ELSE pages[i].version
C4_Witness ==
    /\ sync_pc = "aborted"
    /\ page_no > 1
    /\ Len(pages) > 1
    /\ cursor0 > 0

\* C5: the extension get_extension returns starts with a dot.
C5_LeadingDot ==
    ext # None => (Len(ext[1]) > 0 /\ ext[1][1] = ".")

\* A name made of ProfileIdLen lowercase letters or digits, a dot, and a
\* suffix.
IsProfileName(name) ==
    /\ Len(name) > ProfileIdLen
    /\ \A i \in 1..ProfileIdLen : name[i] \in Lower \cup Digit
    /\ name[ProfileIdLen + 1] = "."

\* s is what follows the dot of the name, up to its first newline.
IsSuffixOf(s, name) ==
    LET rest == SubSeq(name, ProfileIdLen + 2, Len(name))
    IN  /\ Len(s) <= Len(rest)
        /\ \A i \in 1..Len(s) : s[i] = rest[i] /\ s[i] # "\n"
        /\ Len(s) < Len(rest) => rest[Len(s) + 1] = "\n"

\* C6 as amended: an entry of a profile container is yielded if and only if
\* it is a directory, its name is a profile name, and zotero/storage exists
\* under it; what is yielded is the suffix and the path of that
\* zotero/storage.
C6_Discovery ==
    fpath # None =>
        LET e == fpath[1]
        IN  /\ yielded # None <=>
                /\ e.is_dir
                /\ IsProfileName(e.name)
                /\ e.zotero \in {"storage_file", "storage_dir"}
            /\ yielded # None =>
                /\ yielded[1].path = <<container, e.name, "zotero", "storage">>
                /\ IsSuffixOf(yielded[1].suffix, e.name)
C6_Witness ==
    /\ fpath # None
    /\ yielded # None
    /\ ~fpath[1].storage
    /\ container = ZOTERO_DIR

\* C6 as claimed: an entry is yielded if and only if it is a directory, its
\* name is a profile name, and it contains a `storage` subdirectory; what is
\* yielded is the suffix and the path of that subdirectory.
C6_StorageChild ==
    fpath # None =>
        LET e == fpath[1]
        IN  /\ yielded # None <=>
                /\ e.is_dir
                /\ IsProfileName(e.name)
                /\ e.storage
            /\ yielded # None =>
                /\ yielded[1].path = <<container, e.name, "storage">>
                /\ IsSuffixOf(yielded[1].suffix, e.name)

\* C8: with required true, select can return None: the entry -1, which is
\* the one entry select answers with None, makes it return None.  (No other
\* entry can: see C8_NoneNeverReturned.)
C8_NoneWhenRequired ==
    (required /\ sel_pc # "idle" /\ entries # <<>>
        /\ entries[Len(entries)] = -1) =>
        (sel_pc = "returned" /\ sel_ret = None)

\* What holds instead: with required true, select never returns None.
C8_NoneNeverReturned ==
    (required /\ sel_pc = "returned") => sel_ret # None

\* An entry at which select returns.
Accepted(i) == (0 <= i /\ i < Len(choices)) \/ (~required /\ i = -1)

\* The states of the prompt loop: select has returned only at the first
\* accepted entry, with the object of the choice at that index, or with None
\* for -1; while it prompts, no entry so far was accepted; called with
\* required true and no choices it has not returned.
C10_Loop ==
    /\ sel_pc = "returned" =>
        /\ entries # <<>>
        /\ Accepted(entries[Len(entries)])
        /\ \A k \in 1..(Len(entries) - 1) : ~Accepted(entries[k])
        /\ sel_ret = IF entries[Len(entries)] = -1 THEN None
                     ELSE Some(choices[entries[Len(entries)] + 1][1])
    /\ sel_pc = "prompt" => \A k \in 1..Len(entries) : ~Accepted(entries[k])
    /\ (required /\ choices = <<>>) => sel_pc # "returned"
====
